---- MODULE Spec2Model ----
(***************************************************************************)
(* Model of lint/markup.go: the markup front end of the linter.  A lint    *)
(* pass reads a document, renders it to HTML (HTML: unchanged; Markdown:   *)
(* blackfriday; reStructuredText and AsciiDoc: an external process), and   *)
(* lintHTMLTokens walks the rendered token stream, dispatching text to     *)
(* lintText / lintProse while consuming it from the context ctx.           *)
(*                                                                         *)
(* A Go string is a sequence of one-character strings, so that trimming,   *)
(* splitting and substring search are computed, not assumed.               *)
(***************************************************************************)
EXTENDS Integers, Sequences, FiniteSets, TLC

\* Longest rendered stream the external renderers produce in the model.
MaxLen == 3

----------------------------------------------------------------------------
(* Strings *)

NL == "\n"
CR == "\r"
\* U+201C, U+201D, U+2018, U+2019, each one character.
LDQUO == "ldquo"
RDQUO == "rdquo"
LSQUO == "lsquo"
RSQUO == "rsquo"

Range(s) == {s[i] : i \in DOMAIN s}

\* F applied to the value of x, with x evaluated once.
With(x, F(_)) == CHOOSE r \in {F(v) : v \in {x}} : TRUE

IsSpace(c) == c \in {" ", NL, CR, "\t"}

\* strings.TrimSpace
RECURSIVE TrimLeft(_)
TrimLeft(s) ==
    IF s = <<>> THEN s
    ELSE IF IsSpace(Head(s)) THEN TrimLeft(Tail(s)) ELSE s

RECURSIVE TrimRight(_)
TrimRight(s) ==
    IF s = <<>> THEN s
    ELSE IF IsSpace(s[Len(s)]) THEN TrimRight(SubSeq(s, 1, Len(s) - 1)) ELSE s

TrimSpace(s) == TrimRight(TrimLeft(s))

HasPrefix(s, p) == Len(p) <= Len(s) /\ SubSeq(s, 1, Len(p)) = p

Drop(s, n) == SubSeq(s, n + 1, Len(s))

\* html.UnescapeString, for the entities of the modelled documents.
RECURSIVE UnescapeString(_)
UnescapeString(s) ==
    IF s = <<>> THEN s
    ELSE IF HasPrefix(s, <<"&", "a", "m", "p", ";">>)
         THEN <<"&">> \o UnescapeString(Drop(s, 5))
    ELSE IF HasPrefix(s, <<"&", "l", "t", ";">>)
         THEN <<"<">> \o UnescapeString(Drop(s, 4))
    ELSE <<Head(s)>> \o UnescapeString(Tail(s))

\* core.PrepText: line endings become "\n" (CRLF first, so the line count is
\* kept) and typographic quotes become plain quotes.
RECURSIVE PrepText(_)
PrepText(s) ==
    IF s = <<>> THEN s
    ELSE IF HasPrefix(s, <<CR, NL>>) THEN <<NL>> \o PrepText(Drop(s, 2))
    ELSE IF Head(s) = CR THEN <<NL>> \o PrepText(Tail(s))
    ELSE IF Head(s) \in {LDQUO, RDQUO} THEN <<"\"">> \o PrepText(Tail(s))
    ELSE IF Head(s) \in {LSQUO, RSQUO} THEN <<"'">> \o PrepText(Tail(s))
    ELSE <<Head(s)>> \o PrepText(Tail(s))

\* strings.Count(s, "\n")
CountNL(s) == Cardinality({i \in DOMAIN s : s[i] = NL})

\* strings.Index, 1-based: the first place sub occurs at in s; 0 when it
\* does not occur.
Index(s, sub) ==
    With({i \in 1..(Len(s) - Len(sub) + 1) : SubSeq(s, i, i + Len(sub) - 1) = sub},
         LAMBDA hits : IF hits = {} THEN 0
                       ELSE CHOOSE i \in hits : \A j \in hits : i <= j)

\* strings.Split(s, "\n"): the segments between newlines, empty ones kept.
RECURSIVE SplitNL(_, _)
SplitNL(s, cur) ==
    IF s = <<>> THEN <<cur>>
    ELSE IF Head(s) = NL THEN <<cur>> \o SplitNL(Tail(s), <<>>)
    ELSE SplitNL(Tail(s), Append(cur, Head(s)))

Split(s) == SplitNL(s, <<>>)

\* strings.Fields: the maximal runs of non-space characters.
RECURSIVE FieldsAcc(_, _)
FieldsAcc(s, cur) ==
    IF s = <<>> THEN (IF cur = <<>> THEN <<>> ELSE <<cur>>)
    ELSE IF IsSpace(Head(s))
         THEN (IF cur = <<>> THEN <<>> ELSE <<cur>>) \o FieldsAcc(Tail(s), <<>>)
    ELSE FieldsAcc(Tail(s), Append(cur, Head(s)))

Fields(s) == FieldsAcc(s, <<>>)

\* core.StringInSlice
StringInSlice(a, slice) == \E i \in DOMAIN slice : slice[i] = a

\* core.Substitute: locate sub in src; when found, drop it and everything
\* before it from the buffer.
Substitute(src, sub) ==
    With(Index(src, sub),
         LAMBDA idx : IF idx = 0 THEN [ctx |-> src, found |-> FALSE]
                      ELSE [ctx |-> Drop(src, idx + Len(sub) - 1), found |-> TRUE])

\* core.CheckError: reports a non-nil error once and tells whether err is nil.
CheckError(err) == [reports |-> IF err THEN 1 ELSE 0, ok |-> ~err]

----------------------------------------------------------------------------
(* HTML configuration *)

Digits == {"0", "1", "2", "3", "4", "5", "6", "7", "8", "9"}

\* heading = regexp.MustCompile(`^h\d$`)
heading(s) == Len(s) = 2 /\ s[1] = "h" /\ s[2] \in Digits

skipTags == << <<"s", "c", "r", "i", "p", "t">>, <<"s", "t", "y", "l", "e">>,
               <<"p", "r", "e">>, <<"c", "o", "d", "e">>, <<"t", "t">> >>
skipClasses == <<>>

----------------------------------------------------------------------------
(* Tokens of golang.org/x/net/html *)

Tok(type, data, attr) == [type |-> type, data |-> data, attr |-> attr]
Attr(key, val) == [Key |-> key, Val |-> val]

StartTag(name) == Tok("StartTag", name, <<>>)
EndTag(name) == Tok("EndTag", name, <<>>)
Text(data) == Tok("Text", data, <<>>)
Comment(data) == Tok("Comment", data, <<>>)

h1 == <<"h", "1">>
li == <<"l", "i">>
ul == <<"u", "l">>
pp == <<"p">>
em == <<"e", "m">>
aa == <<"a">>
img == <<"i", "m", "g">>
code == <<"c", "o", "d", "e">>
pre == <<"p", "r", "e">>
strong == <<"s", "t", "r", "o", "n", "g">>
h7 == <<"h", "7">>

\* The tokens the external renderers' output is made of.
TokenAlphabet ==
    { StartTag(h1), StartTag(li), StartTag(code), StartTag(pre), StartTag(em),
      Tok("StartTag", aa, <<Attr("href", <<"u">>), Attr("alt", <<"x">>)>>),
      Tok("SelfClosingTag", img, <<Attr("class", <<"k">>), Attr("alt", <<"v">>)>>),
      EndTag(h1), EndTag(li), EndTag(code),
      Text(<<"x">>), Text(code), Text(<<" ">>),
      Comment(<<"x">>) }

RECURSIVE StreamsOf(_)
StreamsOf(n) ==
    IF n = 0 THEN {<<>>}
    ELSE LET shorter == StreamsOf(n - 1) IN
         shorter \cup {Append(s, t) : s \in {u \in shorter : Len(u) = n - 1},
                                      t \in TokenAlphabet}

\* What rst2html writes, and what asciidoctor writes (explored one token
\* shorter: the walker does not tell the two apart).
Streams == StreamsOf(MaxLen)
ADocStreams == StreamsOf(MaxLen - 1)

----------------------------------------------------------------------------
(* Documents *)

MdTitleRaw ==
    <<"#", " ", "T", "i", "t", "l", "e", NL, NL,
      "S", "o", "m", "e", " ", "*", "*", "b", "o", "l", "d", "*", "*", " ",
      "t", "e", "x", "t", ".", NL>>

\* <h1>Title</h1>\n\n<p>Some <strong>bold</strong> text.</p>\n
MdTitleHTML ==
    << StartTag(h1), Text(<<"T", "i", "t", "l", "e">>), EndTag(h1),
       Text(<<NL, NL>>),
       StartTag(pp), Text(<<"S", "o", "m", "e", " ">>),
       StartTag(strong), Text(<<"b", "o", "l", "d">>), EndTag(strong),
       Text(<<" ", "t", "e", "x", "t", ".">>), EndTag(pp), Text(<<NL>>) >>

MdListRaw == <<"*", " ", "x", NL>>

\* <ul>\n<li>x</li>\n</ul>\n
MdListHTML ==
    << StartTag(ul), Text(<<NL>>), StartTag(li), Text(<<"x">>), EndTag(li),
       Text(<<NL>>), EndTag(ul), Text(<<NL>>) >>

\* A paragraph of two lines, the second with an escaped asterisk.
MdParaRaw == <<"a", NL, "b", " ", "\\", "*", " ", "c", NL>>

\* <p>a\nb * c</p>\n
MdParaHTML ==
    << StartTag(pp), Text(<<"a", NL, "b", " ", "*", " ", "c">>), EndTag(pp),
       Text(<<NL>>) >>

\* blackfriday.MarkdownOptions(b, renderer, options) on the modelled documents.
MarkdownOptions(b) ==
    CASE b = MdTitleRaw -> MdTitleHTML
      [] b = MdListRaw -> MdListHTML
      [] b = MdParaRaw -> MdParaHTML
      [] OTHER -> <<>>

HtmlRaw ==
    <<"<", "h", "1", ">", "x", "<", "/", "h", "1", ">", NL,
      "<", "p", ">", "y", " ", "&", "a", "m", "p", ";", " ", "z", "<", "/", "p", ">">>

\* An HTML document with an element named h7.
HtmlH7Raw == <<"<", "h", "7", ">", "x", "<", "/", "h", "7", ">">>

\* html.NewTokenizer over the modelled HTML documents.  Token() hands out
\* text with its entities already decoded.
Tokenize(b) ==
    CASE b = HtmlRaw ->
           << StartTag(h1), Text(<<"x">>), EndTag(h1), Text(<<NL>>),
              StartTag(pp), Text(<<"y", " ", "&", " ", "z">>), EndTag(pp) >>
      [] b = HtmlH7Raw ->
           << StartTag(h7), Text(<<"x">>), EndTag(h7) >>
      [] OTHER -> <<>>

RstRaw == <<"x", NL, "c", "o", "d", "e", " ", "u", NL, "x">>
ADocRaw == <<"x", " ", "v", CR, NL, "x">>

File(path, ext, raw) == [Path |-> path, RealExt |-> ext, raw |-> raw]

Files ==
    { File("a.html", ".html", HtmlRaw),
      File("h7.html", ".html", HtmlH7Raw),
      File("title.md", ".md", MdTitleRaw),
      File("list.md", ".md", MdListRaw),
      File("para.md", ".md", MdParaRaw),
      File("a.rst", ".rst", RstRaw),
      File("a.adoc", ".adoc", ADocRaw) }

----------------------------------------------------------------------------
(* State *)

VARIABLES
    pc,          \* "start", "walk" (inside the loop of lintHTMLTokens), "done"
    f,           \* the *core.File of the pass
    readErr,     \* err of ioutil.ReadFile is non-nil
    runErr,      \* err of cmd.Run is non-nil
    spawned,     \* number of cmd.Run calls
    errors,      \* number of errors core.CheckError has reported
    entered,     \* number of calls of lintHTMLTokens
    fBytes,      \* the rendered stream, as the tokens it decodes to
    pos,         \* number of tokens.Next() calls that returned a token
    ctx,         \* the context
    lines,       \* line count of the document
    tag,         \* name of the start tag recorded last
    attr,        \* class attribute of the previous token
    inBlock,     \* inside a skip element
    dispatched,  \* the lintText / lintProse calls, in order
    calls,       \* the updateCtx calls, in order
    subs,        \* the core.Substitute calls, in order
    other        \* the passes running beside this one, each with its own state

vars == <<pc, f, readErr, runErr, spawned, errors, entered, fBytes, pos, ctx,
          lines, tag, attr, inBlock, dispatched, calls, subs, other>>

walker == <<fBytes, pos, ctx, lines, tag, attr, inBlock, dispatched, calls, subs>>

Init ==
    /\ pc = "start"
    /\ f \in Files
    /\ readErr = FALSE
    /\ runErr = FALSE
    /\ spawned = 0
    /\ errors = 0
    /\ entered = 0
    /\ fBytes = <<>>
    /\ pos = 0
    /\ ctx = <<>>
    /\ lines = 0
    /\ tag = <<>>
    /\ attr = <<>>
    /\ inBlock = FALSE
    /\ dispatched = <<>>
    /\ calls = <<>>
    /\ subs = <<>>
    /\ other = <<>>

----------------------------------------------------------------------------
(* Context tracking *)

\* One record per core.Substitute call: call is the number of the updateCtx
\* call that makes it, mode tells the attempt on a whole line ("exact") from
\* the attempt on one of its words ("word").
Attempt(call, mode, sub, found) ==
    [call |-> call, mode |-> mode, sub |-> sub, found |-> found]

\* The loop over the words that gives the context up at a word it cannot find.
RECURSIVE SubstituteWords_ClearsOnMiss(_, _, _)
SubstituteWords_ClearsOnMiss(r, ws, k) ==
    IF ws = <<>> THEN r
    ELSE With(Substitute(r.ctx, Head(ws)),
              LAMBDA s : SubstituteWords_ClearsOnMiss(
                  [ctx |-> IF s.found THEN s.ctx ELSE <<>>,
                   subs |-> Append(r.subs, Attempt(k, "word", Head(ws), s.found))],
                  Tail(ws), k))

\* for _, w := range strings.Fields(s) { ctx, _ = core.Substitute(ctx, w) }
RECURSIVE SubstituteWords(_, _, _)
SubstituteWords(r, ws, k) ==
    IF ws = <<>> THEN r
    ELSE With(Substitute(r.ctx, Head(ws)),
              LAMBDA s : SubstituteWords(
                  [ctx |-> s.ctx,
                   subs |-> Append(r.subs, Attempt(k, "word", Head(ws), s.found))],
                  Tail(ws), k))

\* The loop over the lines that goes through the words of a line also when
\* the line was found.
RECURSIVE SubstituteLines_AlwaysWords(_, _, _)
SubstituteLines_AlwaysWords(r, ss, k) ==
    IF ss = <<>> THEN r
    ELSE With(Substitute(r.ctx, Head(ss)),
              LAMBDA s :
                  With([ctx |-> s.ctx,
                        subs |-> Append(r.subs, Attempt(k, "exact", Head(ss), s.found))],
                       LAMBDA r1 :
                           With(SubstituteWords(r1, Fields(Head(ss)), k),
                                LAMBDA r2 : SubstituteLines_AlwaysWords(r2, Tail(ss), k))))

\* for _, s := range strings.Split(txt, "\n") { ... }
RECURSIVE SubstituteLines(_, _, _)
SubstituteLines(r, ss, k) ==
    IF ss = <<>> THEN r
    ELSE With(Substitute(r.ctx, Head(ss)),
              LAMBDA s :
                  With([ctx |-> s.ctx,
                        subs |-> Append(r.subs, Attempt(k, "exact", Head(ss), s.found))],
                       LAMBDA r1 :
                           IF s.found
                           THEN SubstituteLines(r1, Tail(ss), k)
                           ELSE With(SubstituteWords(r1, Fields(Head(ss)), k),
                                     LAMBDA r2 : SubstituteLines(r2, Tail(ss), k))))

\* One record per updateCtx call: idx is the token of the iteration, from
\* tells the call made by clearElements from the call made by the loop.
Call(idx, from, txt, tokt) == [idx |-> idx, from |-> from, txt |-> txt, tokt |-> tokt]

\* updateCtx that consumes the text of text tokens only.
updateCtx_TextOnly(st, txt, tokt, idx, from) ==
    With(IF tokt = "Text" /\ txt # <<>>
         THEN With(Split(txt),
                   LAMBDA ss : SubstituteLines([ctx |-> st.ctx, subs |-> st.subs],
                                               ss, Len(st.calls) + 1))
         ELSE [ctx |-> st.ctx, subs |-> st.subs],
         LAMBDA r : [ctx |-> r.ctx,
                     calls |-> Append(st.calls, Call(idx, from, txt, tokt)),
                     subs |-> r.subs])

\* st carries the context and the records of the calls made so far.
updateCtx(st, txt, tokt, idx, from) ==
    With(IF tokt \in {"Text", "Comment"} /\ txt # <<>>
         THEN With(Split(txt),
                   LAMBDA ss : SubstituteLines([ctx |-> st.ctx, subs |-> st.subs],
                                               ss, Len(st.calls) + 1))
         ELSE [ctx |-> st.ctx, subs |-> st.subs],
         LAMBDA r : [ctx |-> r.ctx,
                     calls |-> Append(st.calls, Call(idx, from, txt, tokt)),
                     subs |-> r.subs])

RECURSIVE clearAttrs(_, _, _)
clearAttrs(st, as, idx) ==
    IF as = <<>> THEN st
    ELSE With(IF Head(as).Key = "alt" \/ Head(as).Key = "href"
              THEN updateCtx(st, Head(as).Val, "Text", idx, "clearElements")
              ELSE st,
              LAMBDA st2 : clearAttrs(st2, Tail(as), idx))

\* clearElements without the test of the attribute key.
RECURSIVE clearAttrsAnyKey(_, _, _)
clearAttrsAnyKey(st, as, idx) ==
    IF as = <<>> THEN st
    ELSE With(updateCtx(st, Head(as).Val, "Text", idx, "clearElements"),
              LAMBDA st2 : clearAttrsAnyKey(st2, Tail(as), idx))

clearElements_AnyKey(st, tok, idx) ==
    IF tok.data = img \/ tok.data = aa
    THEN clearAttrsAnyKey(st, tok.attr, idx)
    ELSE st

clearElements(st, tok, idx) ==
    IF tok.data = img \/ tok.data = aa
    THEN clearAttrs(st, tok.attr, idx)
    ELSE st

getAttribute(tok, key) ==
    LET hits == {i \in DOMAIN tok.attr : tok.attr[i].Key = key} IN
    IF hits = {} THEN <<>>
    ELSE tok.attr[CHOOSE i \in hits : \A j \in hits : i <= j].Val

----------------------------------------------------------------------------
(* The token walker *)

\* txt := core.PrepText(html.UnescapeString(strings.TrimSpace(tok.Data)))
Txt(tok) ==
    With(TrimSpace(tok.data),
         LAMBDA t : With(UnescapeString(t), LAMBDA u : PrepText(u)))

\* A lintText call on NewBlock(ctx, txt, scope), or a lintProse call.
Dispatch(fn, c, txt, scope, ln, idx) ==
    [fn |-> fn, ctx |-> c, text |-> txt, scope |-> scope, lines |-> ln,
     pad |-> 0, idx |-> idx]

\* Entry of lintHTMLTokens(f, rawBytes, fBytes, offset), up to the loop.
lintHTMLTokens(rawBytes, rendered, offset) ==
    /\ ctx' = PrepText(rawBytes)
    /\ lines' = CountNL(PrepText(rawBytes)) + 1 + offset
    /\ fBytes' = rendered
    /\ pos' = 0
    /\ tag' = <<>>
    /\ attr' = <<>>
    /\ inBlock' = FALSE
    /\ entered' = entered + 1
    /\ pc' = "walk"
    /\ UNCHANGED <<dispatched, calls, subs>>

\* The if-chain that leaves the skip element at an end tag only.
Classify_ClearsOnEndTag(tok, txt, skip, idx) ==
    LET tokt == tok.type IN
    IF tokt = "StartTag" /\ skip
    THEN inBlock' = TRUE /\ UNCHANGED <<tag, dispatched>>
    ELSE IF skip /\ inBlock /\ tokt = "EndTag"
    THEN inBlock' = FALSE /\ UNCHANGED <<tag, dispatched>>
    ELSE IF tokt = "StartTag"
    THEN tag' = txt /\ UNCHANGED <<inBlock, dispatched>>
    ELSE IF tokt = "Text" /\ heading(tag)
    THEN /\ dispatched' = Append(dispatched,
              Dispatch("lintText", ctx, txt, "text.heading" \o f.RealExt, lines, idx))
         /\ UNCHANGED <<tag, inBlock>>
    ELSE IF tokt = "Text" /\ tag = li
    THEN /\ dispatched' = Append(dispatched,
              Dispatch("lintText", ctx, txt, "text.list" \o f.RealExt, lines, idx))
         /\ UNCHANGED <<tag, inBlock>>
    ELSE IF tokt = "Text" /\ ~inBlock /\ ~skip /\ txt # <<>>
    THEN /\ dispatched' = Append(dispatched,
              Dispatch("lintProse", ctx, txt, "", lines, idx))
         /\ UNCHANGED <<tag, inBlock>>
    ELSE UNCHANGED <<tag, inBlock, dispatched>>

\* The if-chain that hands over the context of the end of the iteration.
Classify_AfterConsume(tok, txt, skip, idx) ==
    LET tokt == tok.type
        post == updateCtx(clearElements([ctx |-> ctx, calls |-> calls, subs |-> subs],
                                        tok, idx),
                          txt, tokt, idx, "loop").ctx
    IN
    IF tokt = "StartTag" /\ skip
    THEN inBlock' = TRUE /\ UNCHANGED <<tag, dispatched>>
    ELSE IF skip /\ inBlock
    THEN inBlock' = FALSE /\ UNCHANGED <<tag, dispatched>>
    ELSE IF tokt = "StartTag"
    THEN tag' = txt /\ UNCHANGED <<inBlock, dispatched>>
    ELSE IF tokt = "Text" /\ heading(tag)
    THEN /\ dispatched' = Append(dispatched,
              Dispatch("lintText", post, txt, "text.heading" \o f.RealExt, lines, idx))
         /\ UNCHANGED <<tag, inBlock>>
    ELSE IF tokt = "Text" /\ tag = li
    THEN /\ dispatched' = Append(dispatched,
              Dispatch("lintText", post, txt, "text.list" \o f.RealExt, lines, idx))
         /\ UNCHANGED <<tag, inBlock>>
    ELSE IF tokt = "Text" /\ ~inBlock /\ ~skip /\ txt # <<>>
    THEN /\ dispatched' = Append(dispatched,
              Dispatch("lintProse", post, txt, "", lines, idx))
         /\ UNCHANGED <<tag, inBlock>>
    ELSE UNCHANGED <<tag, inBlock, dispatched>>

\* The if-chain of one iteration (the error token apart).
Classify(tok, txt, skip, idx) ==
    LET tokt == tok.type IN
    IF tokt = "StartTag" /\ skip
    THEN inBlock' = TRUE /\ UNCHANGED <<tag, dispatched>>
    ELSE IF skip /\ inBlock
    THEN inBlock' = FALSE /\ UNCHANGED <<tag, dispatched>>
    ELSE IF tokt = "StartTag"
    THEN tag' = txt /\ UNCHANGED <<inBlock, dispatched>>
    ELSE IF tokt = "Text" /\ heading(tag)
    THEN /\ dispatched' = Append(dispatched,
              Dispatch("lintText", ctx, txt, "text.heading" \o f.RealExt, lines, idx))
         /\ UNCHANGED <<tag, inBlock>>
    ELSE IF tokt = "Text" /\ tag = li
    THEN /\ dispatched' = Append(dispatched,
              Dispatch("lintText", ctx, txt, "text.list" \o f.RealExt, lines, idx))
         /\ UNCHANGED <<tag, inBlock>>
    ELSE IF tokt = "Text" /\ ~inBlock /\ ~skip /\ txt # <<>>
    THEN /\ dispatched' = Append(dispatched,
              Dispatch("lintProse", ctx, txt, "", lines, idx))
         /\ UNCHANGED <<tag, inBlock>>
    ELSE UNCHANGED <<tag, inBlock, dispatched>>

\* The tail of an iteration that leaves the context alone inside a skip
\* element.
Consume_NotInBlock(tok, txt, idx) ==
    \E st0 \in {clearElements([ctx |-> ctx, calls |-> calls, subs |-> subs], tok, idx)} :
    \E st \in {updateCtx(st0, txt, tok.type, idx, "loop")} :
       /\ attr' = getAttribute(tok, "class")
       /\ ctx' = IF inBlock THEN ctx ELSE st.ctx
       /\ calls' = IF inBlock THEN calls ELSE st.calls
       /\ subs' = IF inBlock THEN subs ELSE st.subs

\* The tail of an iteration that drops what clearElements and updateCtx
\* return.
Consume_DropsResult(tok, txt, idx) ==
    \E st0 \in {clearElements([ctx |-> ctx, calls |-> calls, subs |-> subs], tok, idx)} :
    \E st \in {updateCtx(st0, txt, tok.type, idx, "loop")} :
       /\ attr' = getAttribute(tok, "class")
       /\ ctx' = ctx
       /\ calls' = st.calls
       /\ subs' = st.subs

\* The tail of an iteration that starts from the whole document again.
Consume_ReseedsCtx(tok, txt, idx) ==
    \E st0 \in {clearElements([ctx |-> PrepText(f.raw), calls |-> calls, subs |-> subs],
                               tok, idx)} :
    \E st \in {updateCtx(st0, txt, tok.type, idx, "loop")} :
       /\ attr' = getAttribute(tok, "class")
       /\ ctx' = st.ctx
       /\ calls' = st.calls
       /\ subs' = st.subs

\* The tail of one iteration: attr, clearElements, updateCtx.
Consume(tok, txt, idx) ==
    \E st0 \in {clearElements([ctx |-> ctx, calls |-> calls, subs |-> subs], tok, idx)} :
    \E st \in {updateCtx(st0, txt, tok.type, idx, "loop")} :
       /\ attr' = getAttribute(tok, "class")
       /\ ctx' = st.ctx
       /\ calls' = st.calls
       /\ subs' = st.subs

\* One iteration of the loop on a token that is not the error token.
LoopBody ==
    /\ pc = "walk"
    /\ pos < Len(fBytes)
    /\ \E idx \in {pos + 1} :
       \E tok \in {fBytes[idx]} :
       \E txt \in {Txt(tok)} :
       \E skip \in {StringInSlice(txt, skipTags) \/ StringInSlice(attr, skipClasses)} :
          /\ pos' = idx
          /\ Classify(tok, txt, skip, idx)
          /\ Consume(tok, txt, idx)
    /\ UNCHANGED <<pc, f, readErr, runErr, spawned, errors, entered, fBytes, lines,
                   other>>

\* A loop that does not leave at the error token.
LoopBreak_Continues ==
    /\ pc = "walk"
    /\ pos = Len(fBytes)
    /\ UNCHANGED vars

\* tokens.Next() returns html.ErrorToken: the loop breaks and the pass returns.
LoopBreak ==
    /\ pc = "walk"
    /\ pos = Len(fBytes)
    /\ pc' = "done"
    /\ UNCHANGED <<f, readErr, runErr, spawned, errors, entered, fBytes, pos,
                   ctx, lines, tag, attr, inBlock, dispatched, calls, subs, other>>

----------------------------------------------------------------------------
(* The four entry points *)

lintHTML ==
    /\ pc = "start"
    /\ f.RealExt = ".html"
    /\ \E err \in BOOLEAN :
         /\ readErr' = err
         /\ errors' = errors + CheckError(err).reports
         /\ IF ~CheckError(err).ok
            THEN pc' = "done" /\ UNCHANGED <<entered, walker>>
            ELSE lintHTMLTokens(f.raw, Tokenize(f.raw), 0)
    /\ UNCHANGED <<f, runErr, spawned, other>>

lintMarkdown ==
    /\ pc = "start"
    /\ f.RealExt = ".md"
    /\ \E err \in BOOLEAN :
         /\ readErr' = err
         /\ errors' = errors + CheckError(err).reports
         /\ IF ~CheckError(err).ok
            THEN pc' = "done" /\ UNCHANGED <<entered, walker>>
            ELSE lintHTMLTokens(f.raw, MarkdownOptions(f.raw), 0)
    /\ UNCHANGED <<f, runErr, spawned, other>>

\* lintRST without the test of the result of cmd.Run.
lintRST_IgnoresRunError ==
    /\ pc = "start"
    /\ f.RealExt = ".rst"
    /\ \E err \in BOOLEAN :
         /\ readErr' = err
         /\ IF ~CheckError(err).ok
            THEN /\ errors' = errors + CheckError(err).reports
                 /\ pc' = "done"
                 /\ UNCHANGED <<runErr, spawned, entered, walker>>
            ELSE \E cmdErr \in BOOLEAN, out \in Streams :
                   /\ spawned' = spawned + 1
                   /\ runErr' = cmdErr
                   /\ errors' = errors + CheckError(err).reports
                                       + CheckError(cmdErr).reports
                   /\ lintHTMLTokens(f.raw, out, 0)
    /\ UNCHANGED <<f, other>>

lintRST ==
    /\ pc = "start"
    /\ f.RealExt = ".rst"
    /\ \E err \in BOOLEAN :
         /\ readErr' = err
         /\ IF ~CheckError(err).ok
            THEN /\ errors' = errors + CheckError(err).reports
                 /\ pc' = "done"
                 /\ UNCHANGED <<runErr, spawned, entered, walker>>
            ELSE \E cmdErr \in BOOLEAN, out \in Streams :
                   /\ spawned' = spawned + 1
                   /\ runErr' = cmdErr
                   /\ errors' = errors + CheckError(err).reports
                                       + CheckError(cmdErr).reports
                   /\ IF CheckError(cmdErr).ok
                      THEN lintHTMLTokens(f.raw, out, 0)
                      ELSE pc' = "done" /\ UNCHANGED <<entered, walker>>
    /\ UNCHANGED <<f, other>>

\* lintADoc without the return after a failed read.
lintADoc_NoReturn ==
    /\ pc = "start"
    /\ f.RealExt = ".adoc"
    /\ \E err \in BOOLEAN :
         /\ readErr' = err
         /\ \E cmdErr \in BOOLEAN, out \in ADocStreams :
              /\ spawned' = spawned + 1
              /\ runErr' = cmdErr
              /\ errors' = errors + CheckError(err).reports
                                  + CheckError(cmdErr).reports
              /\ IF CheckError(cmdErr).ok
                 THEN lintHTMLTokens(IF err THEN <<>> ELSE f.raw, out, 0)
                 ELSE pc' = "done" /\ UNCHANGED <<entered, walker>>
    /\ UNCHANGED <<f, other>>

lintADoc ==
    /\ pc = "start"
    /\ f.RealExt = ".adoc"
    /\ \E err \in BOOLEAN :
         /\ readErr' = err
         /\ IF ~CheckError(err).ok
            THEN /\ errors' = errors + CheckError(err).reports
                 /\ pc' = "done"
                 /\ UNCHANGED <<runErr, spawned, entered, walker>>
            ELSE \E cmdErr \in BOOLEAN, out \in ADocStreams :
                   /\ spawned' = spawned + 1
                   /\ runErr' = cmdErr
                   /\ errors' = errors + CheckError(err).reports
                                       + CheckError(cmdErr).reports
                   /\ IF CheckError(cmdErr).ok
                      THEN lintHTMLTokens(f.raw, out, 0)
                      ELSE pc' = "done" /\ UNCHANGED <<entered, walker>>
    /\ UNCHANGED <<f, other>>

Next ==
    \/ lintHTML
    \/ lintMarkdown
    \/ lintRST
    \/ lintADoc
    \/ LoopBody
    \/ LoopBreak

Spec == Init /\ [][Next]_vars

\* The pass is sequential code: it keeps running until it returns.
FairSpec == Spec /\ WF_vars(LoopBody) /\ WF_vars(LoopBreak)

----------------------------------------------------------------------------
(* Two passes side by side *)

\* The state of a pass: the document, what its entry point holds, and the
\* local variables of lintHTMLTokens.  Every pass has its own.
Locals ==
    [pc |-> pc, f |-> f, readErr |-> readErr, runErr |-> runErr,
     spawned |-> spawned, errors |-> errors, entered |-> entered,
     fBytes |-> fBytes, pos |-> pos, ctx |-> ctx, lines |-> lines, tag |-> tag,
     attr |-> attr, inBlock |-> inBlock, dispatched |-> dispatched,
     calls |-> calls, subs |-> subs]

\* A pass before its first step.
Fresh(file) ==
    [pc |-> "start", f |-> file, readErr |-> FALSE, runErr |-> FALSE,
     spawned |-> 0, errors |-> 0, entered |-> 0,
     fBytes |-> <<>>, pos |-> 0, ctx |-> <<>>, lines |-> 0, tag |-> <<>>,
     attr |-> <<>>, inBlock |-> FALSE, dispatched |-> <<>>,
     calls |-> <<>>, subs |-> <<>>]

\* The documents of the passes that run side by side: those rendered inside
\* the process.
ConcFiles == {file \in Files : file.RealExt \in {".html", ".md"}}

ConcInit ==
    \E file \in ConcFiles, file2 \in ConcFiles :
        /\ file # file2
        /\ pc = "start"
        /\ f = file
        /\ readErr = FALSE
        /\ runErr = FALSE
        /\ spawned = 0
        /\ errors = 0
        /\ entered = 0
        /\ fBytes = <<>>
        /\ pos = 0
        /\ ctx = <<>>
        /\ lines = 0
        /\ tag = <<>>
        /\ attr = <<>>
        /\ inBlock = FALSE
        /\ dispatched = <<>>
        /\ calls = <<>>
        /\ subs = <<>>
        /\ other = <<Fresh(file2)>>

\* A change of the running pass in which tag is one variable of the package,
\* the same for both passes.
Switch_SharedTag ==
    /\ other # <<>>
    /\ other[1].pc # "done"
    /\ other' = <<Locals>>
    /\ pc' = other[1].pc
    /\ f' = other[1].f
    /\ readErr' = other[1].readErr
    /\ runErr' = other[1].runErr
    /\ spawned' = other[1].spawned
    /\ errors' = other[1].errors
    /\ entered' = other[1].entered
    /\ fBytes' = other[1].fBytes
    /\ pos' = other[1].pos
    /\ ctx' = other[1].ctx
    /\ lines' = other[1].lines
    /\ tag' = tag
    /\ attr' = other[1].attr
    /\ inBlock' = other[1].inBlock
    /\ dispatched' = other[1].dispatched
    /\ calls' = other[1].calls
    /\ subs' = other[1].subs

\* The scheduler lets the other pass run: the running pass is set aside with
\* all its variables and the other pass goes on with its own.  The
\* package-level variables (lines 19-51) are read by both and written by
\* neither.
Switch ==
    /\ other # <<>>
    /\ other[1].pc # "done"
    /\ other' = <<Locals>>
    /\ pc' = other[1].pc
    /\ f' = other[1].f
    /\ readErr' = other[1].readErr
    /\ runErr' = other[1].runErr
    /\ spawned' = other[1].spawned
    /\ errors' = other[1].errors
    /\ entered' = other[1].entered
    /\ fBytes' = other[1].fBytes
    /\ pos' = other[1].pos
    /\ ctx' = other[1].ctx
    /\ lines' = other[1].lines
    /\ tag' = other[1].tag
    /\ attr' = other[1].attr
    /\ inBlock' = other[1].inBlock
    /\ dispatched' = other[1].dispatched
    /\ calls' = other[1].calls
    /\ subs' = other[1].subs

ConcNext ==
    \/ lintHTML
    \/ lintMarkdown
    \/ LoopBody
    \/ LoopBreak
    \/ Switch

ConcSpec == ConcInit /\ [][ConcNext]_vars

TypeOK ==
    /\ pc \in {"start", "walk", "done"}
    /\ pos \in 0..Len(fBytes)
    /\ inBlock \in BOOLEAN

----------------------------------------------------------------------------
(* Document structure: which elements are open at a token *)

LastIndexOf(st, name) ==
    LET hits == {j \in DOMAIN st : st[j] = name} IN
    IF hits = {} THEN 0 ELSE CHOOSE j \in hits : \A k \in hits : k <= j

\* The names of the elements open after the first k tokens of s, outermost
\* first: a start tag opens its element, an end tag closes the innermost open
\* element of its name together with everything opened inside it.
RECURSIVE OpenAfter(_, _)
OpenAfter(s, k) ==
    IF k = 0 THEN <<>>
    ELSE LET st == OpenAfter(s, k - 1)
             t == s[k]
         IN IF t.type = "StartTag" THEN Append(st, t.data)
            ELSE IF t.type = "EndTag" /\ LastIndexOf(st, t.data) > 0
                 THEN SubSeq(st, 1, LastIndexOf(st, t.data) - 1)
            ELSE st

\* Token i of the stream lies inside an open element with a name in names.
Inside(i, names) == \E n \in Range(OpenAfter(fBytes, i - 1)) : n \in names

SkipNames == Range(skipTags)
HeadingNames == {<<"h", d>> : d \in {"1", "2", "3", "4", "5", "6"}}

IsTextTok(i) == fBytes[i].type = "Text"
NonEmptyText(i) == IsTextTok(i) /\ Txt(fBytes[i]) # <<>>

\* The dispatches made for token i.
DispatchesOf(i) == {k \in DOMAIN dispatched : dispatched[k].idx = i}

----------------------------------------------------------------------------
(* Claims *)

\* C1: a text token between the start tag and the matching end tag of a skip
\* element (script, style, pre, code, tt) never causes a lintText or
\* lintProse call, also when the skip element is nested in a heading or list
\* item and when skip elements are nested.
C1_SkipTextNeverDispatched ==
    \A k \in DOMAIN dispatched : ~Inside(dispatched[k].idx, SkipNames)

\* C2: every non-empty text token inside an open h1-h6 element and outside
\* the skip elements is dispatched through lintText with scope
\* "text.heading"+RealExt, and every such token inside an open li element with
\* scope "text.list"+RealExt, also inside an inline child element.
C2_HeadingAndListText ==
    \A i \in 1..pos :
        (NonEmptyText(i) /\ ~Inside(i, SkipNames)) =>
            /\ Inside(i, HeadingNames) =>
                   \E k \in DispatchesOf(i) :
                       /\ dispatched[k].fn = "lintText"
                       /\ dispatched[k].scope = "text.heading" \o f.RealExt
            /\ Inside(i, {li}) =>
                   \E k \in DispatchesOf(i) :
                       /\ dispatched[k].fn = "lintText"
                       /\ dispatched[k].scope = "text.list" \o f.RealExt

\* C3: every non-empty text token outside the open h1-h6, li and skip
\* elements is dispatched through lintProse and through nothing else, in
\* particular text after the end tag of a heading or list item and text that
\* reads as a skip-tag name.
C3_OtherTextIsProse ==
    \A i \in 1..pos :
        (/\ NonEmptyText(i)
         /\ ~Inside(i, SkipNames \cup HeadingNames \cup {li})) =>
            /\ Cardinality(DispatchesOf(i)) = 1
            /\ \A k \in DispatchesOf(i) : dispatched[k].fn = "lintProse"

\* Kind of a dispatched block.
KindOf(d) ==
    IF d.fn = "lintProse" THEN "prose"
    ELSE IF d.scope = "text.heading" \o f.RealExt THEN "heading"
    ELSE "list"

\* Line of the document a dispatched block is attributed to: the line the
\* context stands on once the text of the block is consumed from the context
\* handed over with it, the line count less the newlines still in the buffer.
LineOf(d) ==
    d.lines - CountNL(updateCtx([ctx |-> d.ctx, calls |-> <<>>, subs |-> <<>>],
                                d.text, "Text", d.idx, "loop").ctx)

Blocks == [k \in DOMAIN dispatched |->
              [kind |-> KindOf(dispatched[k]), text |-> dispatched[k].text,
               line |-> LineOf(dispatched[k])]]

\* C4: for "# Title\n\nSome **bold** text.\n" the pass dispatches exactly a
\* heading block "Title" at line 1 and then a prose block "Some bold text."
\* at line 3, and no other block.
C4_TitleExample ==
    (pc = "done" /\ ~readErr /\ f.raw = MdTitleRaw) =>
        Blocks = << [kind |-> "heading", text |-> <<"T", "i", "t", "l", "e">>,
                     line |-> 1],
                    [kind |-> "prose",
                     text |-> <<"S", "o", "m", "e", " ", "b", "o", "l", "d", " ",
                                "t", "e", "x", "t", ".">>,
                     line |-> 3] >>

\* C5: when every text token of the stream is empty after trimming, the
\* walker makes no lintText and no lintProse call.
C5_NoTextNoBlocks ==
    (\A i \in DOMAIN fBytes : IsTextTok(i) => Txt(fBytes[i]) = <<>>) =>
        dispatched = <<>>

\* C6: when the renderer process of lintRST or lintADoc fails, lintHTMLTokens
\* is not entered, no block is dispatched, and the failure is reported
\* exactly once.
C6_RendererFailure ==
    runErr =>
        /\ pc = "done"
        /\ entered = 0
        /\ dispatched = <<>>
        /\ errors = 1

C6_Witness == runErr /\ spawned = 1 /\ f.RealExt = ".rst" /\ pc = "done"

\* C7: when reading the document fails, the error is reported exactly once,
\* the pass returns without a dispatch, and no renderer process is started.
C7_ReadFailure ==
    readErr =>
        /\ pc = "done"
        /\ errors = 1
        /\ entered = 0
        /\ dispatched = <<>>
        /\ spawned = 0

C7_Witness == readErr /\ f.RealExt = ".adoc" /\ pc = "done"

\* The updateCtx calls of the iteration on token i, in order.
CallsOf(i) == SelectSeq(calls, LAMBDA c : c.idx = i)

FoldedKeys(tok) == {j \in DOMAIN tok.attr : tok.attr[j].Key \in {"alt", "href"}}

\* C8: on an img or a element token the value of each alt and href attribute
\* is handed to updateCtx as a text update, in attribute order and before the
\* update for the token itself, and no lintText or lintProse call is made for
\* an attribute value: a block is always the text of a text token.
C8_AttributesOnlyFeedContext ==
    /\ \A i \in 1..pos :
         LET tok == fBytes[i]
             keys == FoldedKeys(tok)
             cs == CallsOf(i)
         IN (tok.type # "Text" /\ tok.data \in {img, aa}) =>
                /\ Len(cs) = Cardinality(keys) + 1
                /\ \A j \in keys :
                       cs[Cardinality({k \in keys : k <= j})] =
                           Call(i, "clearElements", tok.attr[j].Val, "Text")
                /\ cs[Len(cs)] = Call(i, "loop", Txt(tok), tok.type)
                /\ DispatchesOf(i) = {}
    /\ \A k \in DOMAIN dispatched :
         /\ IsTextTok(dispatched[k].idx)
         /\ dispatched[k].text = Txt(fBytes[dispatched[k].idx])

C8_Witness ==
    /\ pc = "done"
    /\ dispatched # <<>>
    /\ \E i \in 1..pos :
         /\ fBytes[i].data = img
         /\ Len(CallsOf(i)) = 2
         /\ \E k \in DOMAIN calls : calls[k].idx = i /\ calls[k].txt = <<"v">>

\* C9: every non-empty text token before the error token, dispatched or
\* skipped, is handed to updateCtx exactly once, in stream order.
C9_TextConsumedOnce ==
    /\ \A i \in 1..pos :
         NonEmptyText(i) =>
             LET own == {k \in DOMAIN calls :
                            calls[k].idx = i /\ calls[k].from = "loop"}
             IN /\ Cardinality(own) = 1
                /\ \A k \in own : calls[k] = Call(i, "loop", Txt(fBytes[i]), "Text")
    /\ \A k1, k2 \in DOMAIN calls : k1 < k2 => calls[k1].idx <= calls[k2].idx
    /\ (pc = "done" /\ entered = 1) => pos = Len(fBytes)

C9_Witness ==
    /\ pc = "done"
    /\ \E i, j \in 1..pos :
         /\ NonEmptyText(i) /\ DispatchesOf(i) # {}
         /\ NonEmptyText(j) /\ DispatchesOf(j) = {} /\ Inside(j, SkipNames)

IsPrefix(s, t) == Len(s) <= Len(t) /\ SubSeq(t, 1, Len(s)) = s

\* C10: the loop of lintHTMLTokens terminates at the error token that ends
\* the stream; nothing is processed after it, no error is reported, and the
\* blocks dispatched before it stay dispatched.
C10_WalkTerminates ==
    /\ (pc = "walk") ~> (pc = "done" /\ pos = Len(fBytes))
    /\ [][pc = "walk" => (errors' = errors /\ IsPrefix(dispatched, dispatched'))]_vars
    /\ [][pc = "done" => vars' = vars]_vars

C10_Witness ==
    /\ pc = "done"
    /\ entered = 1
    /\ pos = Len(fBytes)
    /\ Len(dispatched) >= 2

\* C11: of two blocks dispatched one after the other in a pass, the later is
\* attributed a line that is greater than or equal to the line of the
\* earlier.
C11_LinesNeverDecrease ==
    \A k \in DOMAIN dispatched :
        k < Len(dispatched) => LineOf(dispatched[k]) <= LineOf(dispatched[k + 1])

C11_Witness ==
    /\ pc = "done"
    /\ \E k \in DOMAIN dispatched :
         /\ k < Len(dispatched)
         /\ LineOf(dispatched[k]) < LineOf(dispatched[k + 1])
         /\ dispatched[k].text # dispatched[k + 1].text

\* The context after clearElements in the iteration on the next token.
AfterClearElements ==
    clearElements([ctx |-> ctx, calls |-> calls, subs |-> subs],
                  fBytes[pos + 1], pos + 1).ctx

\* C12: the context never grows: in every iteration it is no longer after
\* clearElements than before, and no longer after updateCtx than after
\* clearElements.
C12_ContextNeverGrows ==
    [][(pc = "walk" /\ pos < Len(fBytes)) =>
           /\ Len(AfterClearElements) <= Len(ctx)
           /\ Len(ctx') <= Len(AfterClearElements)]_vars

C12_Witness ==
    /\ pc = "done"
    /\ Len(ctx) < Len(PrepText(f.raw))
    /\ \E a, b \in Range(subs) :
         /\ a.found /\ a.sub # <<>> /\ calls[a.call].from = "clearElements"
         /\ b.found /\ b.sub # <<>> /\ calls[b.call].from = "loop"

\* No line and no word of txt occurs in the context c.
Missing(c, txt) ==
    /\ txt # <<>>
    /\ \A s \in Range(Split(txt)) :
         /\ Index(c, s) = 0
         /\ \A w \in Range(Fields(s)) : Index(c, w) = 0

\* The core.Substitute calls of the updateCtx call the loop makes for token i.
AttemptsOf(i) ==
    SelectSeq(subs, LAMBDA a : calls[a.call].idx = i /\ calls[a.call].from = "loop")

\* C13: when neither a line nor a word of the text of a token occurs in the
\* context, the iteration leaves the context as it is and reports no error,
\* and the walk goes on: the loop stays in the walk, on the next token, and
\* ends only at the end of the stream.
C13_MissIsSilent ==
    /\ [][(/\ pc = "walk" /\ pos < Len(fBytes)
           /\ fBytes[pos + 1].type \in {"Text", "Comment"}
           /\ Missing(ctx, Txt(fBytes[pos + 1]))) =>
              /\ ctx' = ctx
              /\ errors' = errors
              /\ pc' = "walk"
              /\ pos' = pos + 1
              /\ Len(calls') = Len(calls) + 1]_vars
    /\ []((pc = "done" /\ entered = 1) => pos = Len(fBytes))

C13_Witness ==
    /\ pc = "done"
    /\ errors = 0
    /\ \E i, j \in 1..pos :
         /\ i < j
         /\ AttemptsOf(i) # <<>>
         /\ \A n \in DOMAIN AttemptsOf(i) : ~AttemptsOf(i)[n].found
         /\ DispatchesOf(j) # {}
         /\ \E n \in DOMAIN AttemptsOf(j) : AttemptsOf(j)[n].found

\* C14: after the walk over an HTML document, which is its own rendered
\* stream, every core.Substitute call of the pass has found its fragment and
\* the context holds nothing but white space.
C14_HtmlFullyConsumed ==
    (pc = "done" /\ entered = 1 /\ f.RealExt = ".html") =>
        /\ \A n \in DOMAIN subs : subs[n].found
        /\ \A n \in DOMAIN ctx : IsSpace(ctx[n])

\* The start tag recorded last before token i: the name of the last start
\* tag before i that is not the start tag of a skip element.
RecordedTag(i) ==
    LET rec == {j \in 1..(i - 1) :
                   /\ fBytes[j].type = "StartTag"
                   /\ ~StringInSlice(Txt(fBytes[j]), skipTags)}
    IN IF rec = {} THEN <<>>
       ELSE Txt(fBytes[CHOOSE j \in rec : \A n \in rec : n <= j])

\* C16: a block is dispatched as a heading only when the start tag recorded
\* last is one of h1 ... h6; text under another tag name, h0 or h7 for
\* example, is never dispatched as a heading.
C16_HeadingOnlyH1ToH6 ==
    \A k \in DOMAIN dispatched :
        dispatched[k].scope = "text.heading" \o f.RealExt =>
            RecordedTag(dispatched[k].idx) \in HeadingNames

\* C17: the skip state is one boolean: the start tag of a skip element sets
\* inBlock whatever its value, a token that is no start tag and reads as a
\* skip-tag name clears it when it is set, and no other token changes it;
\* the elements still open do not count.
C17_SkipIsOneBoolean ==
    [][(pc = "walk" /\ pos < Len(fBytes)) =>
           LET tok == fBytes[pos + 1]
               name == Txt(tok)
           IN /\ (tok.type = "StartTag" /\ name \in SkipNames) => inBlock'
              /\ (tok.type # "StartTag" /\ name \in SkipNames /\ inBlock) => ~inBlock'
              /\ (tok.type # "StartTag" /\ name \in SkipNames /\ ~inBlock) => ~inBlock'
              /\ name \notin SkipNames => inBlock' = inBlock]_vars

\* After the first end tag of two nested skip elements inBlock is false
\* although the outer skip element is still open.
C17_Witness ==
    /\ pos = 3
    /\ fBytes[1].type = "StartTag" /\ fBytes[1].data \in SkipNames
    /\ fBytes[2].type = "StartTag" /\ fBytes[2].data \in SkipNames
    /\ fBytes[3].type = "EndTag" /\ fBytes[3].data = fBytes[2].data
    /\ fBytes[1].data \in Range(OpenAfter(fBytes, pos))
    /\ ~inBlock

\* The core.Substitute calls of updateCtx call k.
AttemptsIn(k) == SelectSeq(subs, LAMBDA a : a.call = k)

\* The updateCtx calls that go into the substitution loop.
Substituting == {k \in DOMAIN calls :
                    calls[k].tokt \in {"Text", "Comment"} /\ calls[k].txt # <<>>}

WordAttempts(ws) == [j \in DOMAIN ws |-> [mode |-> "word", sub |-> ws[j]]]
ModeAndSub(as) == [j \in DOMAIN as |-> [mode |-> as[j].mode, sub |-> as[j].sub]]

\* C18 as stated: updateCtx first attempts the fragment as a whole, goes
\* through its words, in order, only when the whole was not found, and makes
\* no further attempt when it was found.
C18_ExactThenWords ==
    \A k \in Substituting :
        LET as == AttemptsIn(k) IN
        /\ as # <<>>
        /\ as[1].mode = "exact" /\ as[1].sub = calls[k].txt
        /\ as[1].found => Len(as) = 1
        /\ ~as[1].found => ModeAndSub(Tail(as)) = WordAttempts(Fields(calls[k].txt))

\* as is, line after line of ss, the attempt on the line followed, when and
\* only when it did not find the line, by the attempts on its words in order.
RECURSIVE LineByLine(_, _)
LineByLine(as, ss) ==
    IF ss = <<>> THEN as = <<>>
    ELSE /\ as # <<>>
         /\ as[1].mode = "exact" /\ as[1].sub = Head(ss)
         /\ LET ws == IF as[1].found THEN <<>> ELSE Fields(Head(ss)) IN
            /\ Len(as) >= 1 + Len(ws)
            /\ ModeAndSub(SubSeq(as, 2, 1 + Len(ws))) = WordAttempts(ws)
            /\ LineByLine(SubSeq(as, 2 + Len(ws), Len(as)), Tail(ss))

\* C18, amended: updateCtx takes the fragment line by line; for each line it
\* first attempts the whole line, goes through the words of that line, in
\* order, only when the line was not found, and makes no further attempt on
\* a line that was found.
C18_ExactThenWordsPerLine ==
    \A k \in Substituting : LineByLine(AttemptsIn(k), Split(calls[k].txt))

C18_Witness ==
    /\ pc = "done"
    /\ \E k \in Substituting :
         LET as == AttemptsIn(k) IN
         /\ Len(Split(calls[k].txt)) = 2
         /\ Len(as) = 5
         /\ as[1].mode = "exact" /\ as[1].found
         /\ as[2].mode = "exact" /\ ~as[2].found
         /\ \A j \in 3..5 : as[j].mode = "word" /\ as[j].found

\* The context after the iterations on the first n tokens of the stream.
RECURSIVE CtxAfter(_)
CtxAfter(n) ==
    IF n = 0 THEN PrepText(f.raw)
    ELSE With(CtxAfter(n - 1),
              LAMBDA c :
                  updateCtx(clearElements([ctx |-> c, calls |-> <<>>, subs |-> <<>>],
                                          fBytes[n], n),
                            Txt(fBytes[n]), fBytes[n].type, n, "loop").ctx)

\* C19: the context handed over with a dispatched text token is the context
\* after the iterations on all the tokens before it and before the
\* iteration on the token itself: the dispatch comes before clearElements
\* and updateCtx.
C19_DispatchBeforeConsume ==
    /\ \A k \in DOMAIN dispatched :
         dispatched[k].ctx = CtxAfter(dispatched[k].idx - 1)
    /\ [][Len(dispatched') > Len(dispatched) =>
             /\ dispatched'[Len(dispatched')].ctx = ctx
             /\ dispatched'[Len(dispatched')].idx = pos + 1]_vars

C19_Witness ==
    /\ pc = "done"
    /\ \E k \in DOMAIN dispatched :
         LET i == dispatched[k].idx IN
         /\ dispatched[k].ctx # PrepText(f.raw)
         /\ dispatched[k].ctx # CtxAfter(i)

\* C20: the iteration on a comment token dispatches nothing and consumes
\* the text of the comment as it would the same text of a text token; the
\* iteration on a start tag or end tag that is not img or a leaves the
\* context as it is.
C20_CommentsAndTags ==
    [][(pc = "walk" /\ pos < Len(fBytes)) =>
           LET tok == fBytes[pos + 1] IN
           /\ tok.type = "Comment" =>
                  /\ dispatched' = dispatched
                  /\ ctx' = updateCtx([ctx |-> ctx, calls |-> calls, subs |-> subs],
                                      Txt(tok), "Text", pos + 1, "loop").ctx
           /\ (tok.type \in {"StartTag", "EndTag"} /\ tok.data \notin {img, aa}) =>
                  ctx' = ctx]_vars

C20_Witness ==
    /\ pc = "done"
    /\ \E i, j \in 1..pos :
         /\ fBytes[i].type = "Comment"
         /\ DispatchesOf(i) = {}
         /\ \E n \in DOMAIN AttemptsOf(i) :
                AttemptsOf(i)[n].found /\ AttemptsOf(i)[n].sub # <<>>
         /\ fBytes[j].type \in {"StartTag", "EndTag"}
         /\ fBytes[j].data \notin {img, aa}

\* The rendered stream of a document rendered inside the process.
RenderedOf(file) ==
    IF file.RealExt = ".html" THEN Tokenize(file.raw) ELSE MarkdownOptions(file.raw)

\* One iteration of a pass that runs alone, on the walker state w.
AloneStep(w, tok, idx, file) ==
    LET txt == Txt(tok)
        tokt == tok.type
        skip == StringInSlice(txt, skipTags) \/ StringInSlice(w.attr, skipClasses)
        lns == CountNL(PrepText(file.raw)) + 1
        block(fn, scope) ==
            Append(w.dispatched, Dispatch(fn, w.ctx, txt, scope, lns, idx))
    IN [tag |-> IF tokt = "StartTag" /\ ~skip THEN txt ELSE w.tag,
        inBlock |-> IF tokt = "StartTag" /\ skip THEN TRUE
                    ELSE IF skip /\ w.inBlock THEN FALSE
                    ELSE w.inBlock,
        dispatched |->
            IF tokt # "Text" \/ (skip /\ w.inBlock) THEN w.dispatched
            ELSE IF heading(w.tag)
                 THEN block("lintText", "text.heading" \o file.RealExt)
            ELSE IF w.tag = li
                 THEN block("lintText", "text.list" \o file.RealExt)
            ELSE IF ~w.inBlock /\ ~skip /\ txt # <<>>
                 THEN block("lintProse", "")
            ELSE w.dispatched,
        attr |-> getAttribute(tok, "class"),
        ctx |-> updateCtx(clearElements([ctx |-> w.ctx, calls |-> <<>>, subs |-> <<>>],
                                        tok, idx),
                          txt, tokt, idx, "loop").ctx]

\* The walker state of a pass over file that runs alone, after n tokens.
RECURSIVE AloneAfter(_, _)
AloneAfter(file, n) ==
    IF n = 0
    THEN [tag |-> <<>>, inBlock |-> FALSE, dispatched |-> <<>>, attr |-> <<>>,
          ctx |-> PrepText(file.raw)]
    ELSE With(AloneAfter(file, n - 1),
              LAMBDA w : AloneStep(w, RenderedOf(file)[n], n, file))

\* The pass with state p is where it is when it runs alone.
AsAlone(p) ==
    /\ p.entered = 0 => p.dispatched = <<>> /\ p.ctx = <<>>
    /\ p.entered = 1 =>
           /\ p.fBytes = RenderedOf(p.f)
           /\ p.dispatched = AloneAfter(p.f, p.pos).dispatched
           /\ p.ctx = AloneAfter(p.f, p.pos).ctx
    /\ (p.pc = "done" /\ p.entered = 1) => p.pos = Len(RenderedOf(p.f))

\* C15: of two passes over different documents that run side by side, under
\* every interleaving of their steps, each has dispatched the blocks and
\* holds the context it has at the same token when it runs alone, up to and
\* at its end.
C15_PassesDoNotInterfere ==
    /\ AsAlone(Locals)
    /\ \A n \in DOMAIN other : AsAlone(other[n])

\* Both passes are in the middle of their walks, each with a block dispatched.
C15_Witness ==
    /\ other # <<>>
    /\ pc = "walk" /\ 0 < pos /\ pos < Len(fBytes) /\ dispatched # <<>>
    /\ other[1].pc = "walk" /\ 0 < other[1].pos
    /\ other[1].pos < Len(other[1].fBytes) /\ other[1].dispatched # <<>>
    /\ f # other[1].f

====
